---- MODULE Spec2Model ----
(***************************************************************************)
(* Model of src/database.js (class GRIITXDatabase): the stock ledger kept  *)
(* in memory by every database instance, its snapshot in localStorage, and *)
(* the operations get / set / adjust / canFulfill / reserve; the product   *)
(* catalog (addProduct / updateProduct / deleteProduct) and the order      *)
(* ledger (addPreorder / getAllPreorders / deletePreorder / clearAll).     *)
(*                                                                         *)
(* A database instance is one browser tab: it loads the snapshot once, in  *)
(* its constructor, and afterwards reads only its own memory.  JavaScript  *)
(* runs every method to completion, so each method is one atomic action.   *)
(*                                                                         *)
(* stock[c]  this.stock of instance c: product id -> record of the sizes   *)
(* stored    the ledger under stockKey in localStorage                     *)
(* last      the call the caller has just made and what it returned        *)
(* initial, log   the snapshot at the start and the reserve calls made     *)
(*           since (kept by SpecSeq, SpecRace and SpecOrders only)         *)
(* products, storedProducts   this.products of instance 1 and the catalog  *)
(*           under productsKey in localStorage                             *)
(* data, storedData   this.data of instance 1 (the order ledger) and the   *)
(*           orders under dbName in localStorage                           *)
(* clock     Date.now()                                                    *)
(*                                                                         *)
(* Except in SpecCatalog, the instances are constructed over a             *)
(* localStorage that earlier sessions have filled: the product catalog is  *)
(* not empty, so the constructor does not seed the default products.       *)
(* Product identifiers are ordinary strings (no name of a property that    *)
(* every JavaScript object inherits).                                      *)
(***************************************************************************)
EXTENDS Integers, Sequences, FiniteSets, TLC

VARIABLES stock, stored, last, initial, log,
          products, storedProducts, data, storedData, clock

vars == <<stock, stored, last, initial, log,
          products, storedProducts, data, storedData, clock>>

(* the catalog and the order ledger, in memory and in localStorage *)
catalog == <<products, storedProducts>>
orders == <<data, storedData, clock>>

----------------------------------------------------------------------------
(* Bounds of the model *)

MaxQty == 2
MinQty == 0 - 1
MaxStock == 1
MaxItems == 2
MaxLog == 2
MaxOrders == 3
MaxClock == 2
MaxProducts == 6

----------------------------------------------------------------------------
(* Values *)

PIDs == {"sanji", "gyomei"}

Sizes == {"S", "M", "L", "XL"}

SizeInputs == {"S", "m", "XXL"}

(* A JavaScript value handed to parseInt: an integer, something that is    *)
(* not a number (parseInt gives NaN), or undefined/null (a missing field). *)
IntVal(n) == [t |-> "int", v |-> n]
NaNVal == [t |-> "nan", v |-> 0]
Undef == [t |-> "undef", v |-> 0]

QtyInputs == {IntVal(n) : n \in MinQty..MaxQty} \cup {NaNVal}

Max(a, b) == IF a >= b THEN a ELSE b

ZeroRecord == [sz \in Sizes |-> 0]

(* String(x).toUpperCase() on the size strings the model uses *)
ToUpperCase(s) ==
  CASE s = "s" -> "S"
    [] s = "m" -> "M"
    [] s = "l" -> "L"
    [] s = "xl" -> "XL"
    [] s = "xxl" -> "XXL"
    [] OTHER -> s

(* parseInt(x, 10) || 0 *)
ParseIntOrZero(x) == IF x.t = "int" THEN x.v ELSE 0

(* a ?? b *)
Coalesce(a, b) == IF a.t = "undef" THEN b ELSE a

----------------------------------------------------------------------------
(* Persistence of the stock ledger *)

(* loadStock: the parsed snapshot ({} when the key is missing) *)
loadStock(snapshot) == snapshot

(* saveStock that never reaches localStorage *)
saveStockNever(ledger, snapshot, w) == snapshot

(* saveStock: localStorage.setItem either stores the serialized ledger or  *)
(* throws (quota); the exception is swallowed.  w = the write succeeds.    *)
saveStock(ledger, snapshot, w) == IF w THEN ledger ELSE snapshot

----------------------------------------------------------------------------
(* Stock ledger *)

(* ensureProductStock installing a zero record whether or not there is one *)
ensureProductStockAlways(ledger, pid) ==
  [p \in (DOMAIN ledger) \cup {pid} |->
     IF p = pid THEN ZeroRecord ELSE ledger[p]]

ensureProductStock(ledger, pid) ==
  IF pid \in DOMAIN ledger
  THEN ledger
  ELSE [p \in (DOMAIN ledger) \cup {pid} |->
          IF p = pid THEN ZeroRecord ELSE ledger[p]]

(* what getProductStock(pid) returns on a ledger: a copy of the record     *)
(* ensureProductStock gives                                                *)
GetResult(ledger, pid) == ensureProductStock(ledger, pid)[pid]

(* a size check that lets every key through *)
ValidSizeAny(key) == TRUE

(* ['S','M','L','XL'].includes(key) *)
ValidSize(key) == key \in Sizes

(* s[key] || 0 *)
SizeOf(rec, key) == IF key \in DOMAIN rec THEN rec[key] ELSE 0

(* s[key] = q: the key is added when the record does not have it *)
PutSize(rec, key, q) ==
  [k \in (DOMAIN rec) \cup {key} |-> IF k = key THEN q ELSE rec[k]]

(* setProductStock with a missing field falling back to zero *)
SetRecordZeroMissing(current, stockMap) ==
  [sz \in Sizes |->
     Max(0, ParseIntOrZero(Coalesce(stockMap[sz], IntVal(0))))]

(* the record written by setProductStock *)
SetRecord(current, stockMap) ==
  [sz \in Sizes |->
     Max(0, ParseIntOrZero(Coalesce(stockMap[sz], IntVal(current[sz]))))]

(* updateSizeStock without Math.max *)
AdjustedQtyUnclamped(q, delta) == q + ParseIntOrZero(delta)

(* the quantity written by updateSizeStock *)
AdjustedQty(q, delta) == Max(0, q + ParseIntOrZero(delta))

(* the quantity written by reserveStock for one line item *)
DecrementedQty(q, qty) == Max(0, q - qty)

----------------------------------------------------------------------------
(* Fulfillment check *)

EmptyLedger == [p \in {} |-> ZeroRecord]

(* the forEach of canFulfill assigning the quantity (=) where the code adds *)
(* it (+=)                                                                 *)
AddNeededAssigned(needed, it) ==
  LET pid == it.id
      size == ToUpperCase(it.size)
      qty == ParseIntOrZero(it.qty)
      n1 == IF pid \in DOMAIN needed.req
            THEN needed
            ELSE [keys |-> Append(needed.keys, pid),
                  req |-> [p \in (DOMAIN needed.req) \cup {pid} |->
                             IF p = pid THEN ZeroRecord ELSE needed.req[p]]]
  IN IF size \in Sizes
     THEN [n1 EXCEPT !.req[pid][size] = qty]
     ELSE n1

(* one iteration of the forEach that builds `needed`: the product's entry   *)
(* is created before the size is looked at, and the parsed quantity is      *)
(* added as it is, whatever its sign                                        *)
AddNeeded(needed, it) ==
  LET pid == it.id
      size == ToUpperCase(it.size)
      qty == ParseIntOrZero(it.qty)
      n1 == IF pid \in DOMAIN needed.req
            THEN needed
            ELSE [keys |-> Append(needed.keys, pid),
                  req |-> [p \in (DOMAIN needed.req) \cup {pid} |->
                             IF p = pid THEN ZeroRecord ELSE needed.req[p]]]
  IN IF size \in Sizes
     THEN [n1 EXCEPT !.req[pid][size] = @ + qty]
     ELSE n1

(* `needed` after the forEach: the products in the order Object.entries     *)
(* lists them (first appearance) and the summed quantities                  *)
RECURSIVE Needed(_)
Needed(items) ==
  IF items = <<>>
  THEN [keys |-> <<>>, req |-> EmptyLedger]
  ELSE AddNeeded(Needed(SubSeq(items, 1, Len(items) - 1)), items[Len(items)])

(* Object.entries(needed).every(...): every product visited gets its stock  *)
(* record ensured; `every` stops at the first product that fails            *)
RECURSIVE EveryEntry(_, _, _)
EveryEntry(ledger, keys, req) ==
  IF keys = <<>>
  THEN [ok |-> TRUE, stock |-> ledger]
  ELSE LET pid == Head(keys)
           l2 == ensureProductStock(ledger, pid)
       IN IF \A sz \in Sizes : l2[pid][sz] >= req[pid][sz]
          THEN EveryEntry(l2, Tail(keys), req)
          ELSE [ok |-> FALSE, stock |-> l2]

(* canFulfill(payload) on a ledger: its answer and the ledger it leaves *)
CanFulfillResult(ledger, payload) ==
  LET needed == Needed(payload.items)
  IN EveryEntry(ledger, needed.keys, needed.req)

----------------------------------------------------------------------------
(* Reservation *)

(* one iteration of the decrementing forEach *)
ApplyItem(ledger, it) ==
  LET pid == it.id
      size == ToUpperCase(it.size)
      qty == ParseIntOrZero(it.qty)
  IN IF ~ValidSize(size)
     THEN ledger
     ELSE LET l2 == ensureProductStock(ledger, pid)
          IN [l2 EXCEPT ![pid] =
                PutSize(@, size, DecrementedQty(SizeOf(@, size), qty))]

RECURSIVE ApplyItems(_, _)
ApplyItems(ledger, items) ==
  IF items = <<>>
  THEN ledger
  ELSE ApplyItems(ApplyItem(ledger, Head(items)), Tail(items))

(* reserveStock(payload) on a ledger: its answer, the ledger it leaves and  *)
(* whether it reached saveStock                                             *)
ReserveResult(ledger, payload) ==
  LET chk == CanFulfillResult(ledger, payload)
  IN IF ~chk.ok
     THEN [ok |-> FALSE, error |-> "Insufficient stock", stock |-> chk.stock,
           saves |-> FALSE]
     ELSE [ok |-> TRUE, error |-> "", stock |-> ApplyItems(chk.stock, payload.items),
           saves |-> TRUE]

----------------------------------------------------------------------------
(* Product catalog *)

(* A JavaScript value handed over as a product id: a string, a number, or  *)
(* nothing.  v is the text String(x) gives.                                *)
Str(s) == [t |-> "str", v |-> s]
Num(s) == [t |-> "num", v |-> s]
NoId == [t |-> "undef", v |-> ""]

(* String(x) *)
String(x) == x.v

(* !x *)
Falsy(x) == x.t = "undef" \/ x.v = "" \/ (x.t = "num" /\ x.v = "0")

(* p.id === productId, p.id being the string kept in the catalog *)
StrictEquals(id, x) == x.t = "str" /\ x.v = id

(* the catalog seedDefaultProducts installs (id and price of each) *)
DefaultProducts ==
  << [id |-> "sanji", price |-> 1599], [id |-> "gyomei", price |-> 1599],
     [id |-> "rengoku", price |-> 1599], [id |-> "tanjiro", price |-> 1599] >>

(* loadProducts: the parsed catalog ([] when the key is missing) *)
loadProducts(snapshot) == snapshot

(* saveProducts: setItem stores the catalog or throws; the exception is    *)
(* swallowed.  w = the write succeeds.                                     *)
saveProducts(prods, snapshot, w) == IF w THEN prods ELSE snapshot

(* this.products.findIndex(p => p.id === productId), counted from 1; 0     *)
(* when there is none                                                      *)
FindIndex(prods, x) ==
  IF \E i \in 1..Len(prods) : StrictEquals(prods[i].id, x)
  THEN CHOOSE i \in 1..Len(prods) :
         /\ StrictEquals(prods[i].id, x)
         /\ \A j \in 1..(i - 1) : ~StrictEquals(prods[j].id, x)
  ELSE 0

(* getProductById(productId) finds a product *)
getProductById(prods, x) ==
  \E i \in 1..Len(prods) : StrictEquals(prods[i].id, x)

(* array.splice(i): everything from i on is removed *)
RemoveFrom(seq, i) == SubSeq(seq, 1, i - 1)

(* array.splice(i, 1) *)
RemoveAt(seq, i) == SubSeq(seq, 1, i - 1) \o SubSeq(seq, i + 1, Len(seq))

(* the product addProduct builds *)
NewProduct(product) ==
  [id |-> String(product.id), price |-> ParseIntOrZero(product.price)]

(* the product updateProduct builds from the one kept and the updates *)
MergedProduct(prev, updates) ==
  [id |-> prev.id,
   price |-> IF updates.price.t # "undef"
             THEN ParseIntOrZero(updates.price)
             ELSE prev.price]

(* defaults.forEach(d => this.ensureProductStock(d.id)) *)
RECURSIVE EnsureAll(_, _)
EnsureAll(ledger, prods) ==
  IF prods = <<>>
  THEN ledger
  ELSE EnsureAll(ensureProductStock(ledger, Head(prods).id), Tail(prods))

(* the constructor on a localStorage holding snapStock and snapProducts:   *)
(* what the instance holds and what localStorage holds afterwards.  An     *)
(* empty catalog is seeded; wp, ws = the writes of the catalog and of the  *)
(* stock ledger succeed.                                                   *)
Constructed(snapStock, snapProducts, wp, ws) ==
  IF loadProducts(snapProducts) # <<>>
  THEN [stock |-> loadStock(snapStock), products |-> loadProducts(snapProducts),
        stored |-> snapStock, storedProducts |-> snapProducts]
  ELSE LET l2 == EnsureAll(loadStock(snapStock), DefaultProducts)
       IN [stock |-> l2, products |-> DefaultProducts,
           stored |-> saveStock(l2, snapStock, ws),
           storedProducts |-> saveProducts(DefaultProducts, snapProducts, wp)]

----------------------------------------------------------------------------
(* Order ledger *)

(* the string made of the decimal digits of n *)
DigitsVal(n) == [t |-> "digits", v |-> n]

(* a == b, for ids that are numbers or strings of digits *)
LooseEquals(a, b) == a.t # "undef" /\ b.t # "undef" /\ a.v = b.v

(* { base, ...input }: a field the input carries replaces the one before it *)
Spread(base, field) == IF field.t = "undef" THEN base ELSE field

(* loadData: the parsed orders ([] when the key is missing) *)
loadData(snapshot) == snapshot

(* saveData: setItem stores the orders or throws; the exception is         *)
(* swallowed.  w = the write succeeds.                                     *)
saveData(ledger, snapshot, w) == IF w THEN ledger ELSE snapshot

(* the record addPreorder builds: now and at are the two readings of the   *)
(* clock, r the integer part of Math.random() * 1000                       *)
NewPreorder(preorder, now, r, at) ==
  [id |-> Spread(IntVal(now + r), preorder.id),
   createdAt |-> at,
   payload |-> preorder.payload]

(* addPreorder adding at the end *)
UnshiftAtEnd(seq, x) == Append(seq, x)

(* this.data.unshift(x) *)
Unshift(seq, x) == <<x>> \o seq

(* this.data.findIndex(p => p.id == id), counted from 1; 0 when there is   *)
(* none                                                                    *)
FindPreorder(ledger, id) ==
  IF \E i \in 1..Len(ledger) : LooseEquals(ledger[i].id, id)
  THEN CHOOSE i \in 1..Len(ledger) :
         /\ LooseEquals(ledger[i].id, id)
         /\ \A j \in 1..(i - 1) : ~LooseEquals(ledger[j].id, id)
  ELSE 0

----------------------------------------------------------------------------
(* The record of the call in progress at the caller: which method was      *)
(* called, with what, what it returned or threw, the outcome of its write *)
(* of the stock ledger ("none" when it did not reach saveStock), and what  *)
(* it found (memory and localStorage).  NoCall once the caller has used    *)
(* the result.                                                             *)

NoMap == [sz \in Sizes |-> Undef]

NoProduct == [id |-> NoId, price |-> Undef]

NoPreorder == [id |-> Undef, createdAt |-> Undef, payload |-> [items |-> <<>>]]

NoOrder == [id |-> Undef, createdAt |-> 0, payload |-> [items |-> <<>>]]

NoCall ==
  [op |-> "none", c |-> 0, pid |-> "", size |-> "", val |-> Undef,
   stockMap |-> NoMap, payload |-> [items |-> <<>>], ok |-> FALSE,
   error |-> "", rec |-> ZeroRecord, pre |-> EmptyLedger,
   preStored |-> EmptyLedger,
   write |-> "none", threw |-> FALSE,
   id |-> NoId, product |-> NoProduct, preProducts |-> <<>>,
   preStoredProducts |-> <<>>,
   oid |-> Undef, preorder |-> NoPreorder, order |-> NoOrder, list |-> <<>>,
   preData |-> <<>>, preStoredData |-> <<>>]

(* the outcome of a write, as `last` records it *)
Written(w) == IF w THEN "ok" ELSE "failed"

Idle == last.op = "none"

(* the model keeps quantities within MaxStock *)
Within(ledger) == \A p \in DOMAIN ledger : \A sz \in Sizes : ledger[p][sz] <= MaxStock

----------------------------------------------------------------------------
(* Operations of a database instance c.  Each is called by a caller that  *)
(* is Idle (see the next-state relations).                                 *)

getProductStock(c, pid) ==
  LET l2 == ensureProductStock(stock[c], pid)
  IN /\ stock' = [stock EXCEPT ![c] = l2]
     /\ stored' = stored
     /\ last' = [NoCall EXCEPT !.op = "get", !.c = c, !.pid = pid,
                               !.rec = l2[pid], !.pre = stock[c],
                               !.preStored = stored]
     /\ UNCHANGED <<catalog, orders>>

setProductStock(c, pid, stockMap, w) ==
  LET l1 == ensureProductStock(stock[c], pid)
      l2 == [l1 EXCEPT ![pid] = SetRecord(l1[pid], stockMap)]
  IN /\ Within(l2)
     /\ stock' = [stock EXCEPT ![c] = l2]
     /\ stored' = saveStock(l2, stored, w)
     /\ last' = [NoCall EXCEPT !.op = "set", !.c = c, !.pid = pid,
                               !.stockMap = stockMap, !.rec = l2[pid],
                               !.pre = stock[c], !.preStored = stored,
                               !.write = Written(w)]
     /\ UNCHANGED <<catalog, orders>>

updateSizeStock(c, pid, size, delta, w) ==
  LET l1 == ensureProductStock(stock[c], pid)
      key == ToUpperCase(size)
      valid == ValidSize(key)
      l2 == IF valid
            THEN [l1 EXCEPT ![pid] =
                    PutSize(@, key, AdjustedQty(SizeOf(@, key), delta))]
            ELSE l1
  IN /\ Within(l2)
     /\ stock' = [stock EXCEPT ![c] = l2]
     /\ stored' = IF valid THEN saveStock(l2, stored, w) ELSE stored
     /\ last' = [NoCall EXCEPT !.op = "adjust", !.c = c, !.pid = pid,
                               !.size = size, !.val = delta, !.ok = valid,
                               !.pre = stock[c], !.preStored = stored,
                               !.write = IF valid THEN Written(w) ELSE "none"]
     /\ UNCHANGED <<catalog, orders>>

canFulfill(c, payload) ==
  LET r == CanFulfillResult(stock[c], payload)
  IN /\ stock' = [stock EXCEPT ![c] = r.stock]
     /\ stored' = stored
     /\ last' = [NoCall EXCEPT !.op = "canFulfill", !.c = c,
                               !.payload = payload, !.ok = r.ok,
                               !.pre = stock[c], !.preStored = stored]
     /\ UNCHANGED <<catalog, orders>>

reserveStock(c, payload, w) ==
  LET r == ReserveResult(stock[c], payload)
  IN /\ Within(r.stock)
     /\ stock' = [stock EXCEPT ![c] = r.stock]
     /\ stored' = IF r.saves THEN saveStock(r.stock, stored, w) ELSE stored
     /\ last' = [NoCall EXCEPT !.op = "reserve", !.c = c,
                               !.payload = payload, !.ok = r.ok,
                               !.error = r.error, !.pre = stock[c],
                               !.preStored = stored,
                               !.write = IF r.saves THEN Written(w) ELSE "none"]
     /\ UNCHANGED <<catalog, orders>>

(* delete this.stock[productId] *)
DeleteRecord(ledger, pid) == [p \in (DOMAIN ledger) \ {pid} |-> ledger[p]]

(* The catalog operations, on instance 1.  wp, ws = the writes of the      *)
(* catalog and of the stock ledger succeed.                                *)
addProduct(product, wp, ws) ==
  LET before == [NoCall EXCEPT !.op = "addProduct", !.c = 1,
                               !.product = product, !.pre = stock[1],
                               !.preStored = stored,
                               !.preProducts = products,
                               !.preStoredProducts = storedProducts]
  IN /\ UNCHANGED orders
     /\ IF Falsy(product.id)
        THEN /\ last' = [before EXCEPT !.threw = TRUE,
                                       !.error = "Product id required"]
             /\ UNCHANGED <<stock, stored, catalog>>
        ELSE IF getProductById(products, product.id)
        THEN /\ last' = [before EXCEPT !.threw = TRUE,
                           !.error = "Product with this id already exists"]
             /\ UNCHANGED <<stock, stored, catalog>>
        ELSE LET prod == NewProduct(product)
                 prods2 == Append(products, prod)
                 l2 == ensureProductStock(stock[1], prod.id)
             IN /\ products' = prods2
                /\ storedProducts' = saveProducts(prods2, storedProducts, wp)
                /\ stock' = [stock EXCEPT ![1] = l2]
                /\ stored' = saveStock(l2, stored, ws)
                /\ last' = [before EXCEPT !.ok = TRUE, !.pid = prod.id,
                                          !.write = Written(ws)]

updateProduct(id, updates, wp) ==
  LET idx == FindIndex(products, id)
      before == [NoCall EXCEPT !.op = "updateProduct", !.c = 1, !.id = id,
                               !.product = updates, !.pre = stock[1],
                               !.preStored = stored,
                               !.preProducts = products,
                               !.preStoredProducts = storedProducts]
  IN /\ UNCHANGED <<stock, stored, orders>>
     /\ IF idx = 0
        THEN /\ last' = [before EXCEPT !.threw = TRUE,
                                       !.error = "Product not found"]
             /\ UNCHANGED catalog
        ELSE LET prods2 == [products EXCEPT
                              ![idx] = MergedProduct(products[idx], updates)]
             IN /\ products' = prods2
                /\ storedProducts' = saveProducts(prods2, storedProducts, wp)
                /\ last' = [before EXCEPT !.ok = TRUE, !.pid = prods2[idx].id]

deleteProduct(id, wp, ws) ==
  LET idx == FindIndex(products, id)
      pid == String(id)
      before == [NoCall EXCEPT !.op = "deleteProduct", !.c = 1, !.id = id,
                               !.pid = pid, !.pre = stock[1],
                               !.preStored = stored,
                               !.preProducts = products,
                               !.preStoredProducts = storedProducts]
  IN /\ UNCHANGED orders
     /\ IF idx = 0
        THEN /\ last' = before
             /\ UNCHANGED <<stock, stored, catalog>>
        ELSE LET prods2 == RemoveAt(products, idx)
             IN /\ products' = prods2
                /\ storedProducts' = saveProducts(prods2, storedProducts, wp)
                /\ IF pid \in DOMAIN stock[1]
                   THEN LET l2 == DeleteRecord(stock[1], pid)
                        IN /\ stock' = [stock EXCEPT ![1] = l2]
                           /\ stored' = saveStock(l2, stored, ws)
                           /\ last' = [before EXCEPT !.ok = TRUE,
                                                     !.write = Written(ws)]
                   ELSE /\ UNCHANGED <<stock, stored>>
                        /\ last' = [before EXCEPT !.ok = TRUE]

(* The order ledger operations, on instance 1.  w = the write of the       *)
(* orders succeeds; r is what Math.random() adds to the id; d is the time  *)
(* that passes between the two readings of the clock.                      *)
addPreorder(preorder, r, d, w) ==
  LET rec == NewPreorder(preorder, clock, r, clock + d)
      l2 == Unshift(data, rec)
  IN /\ data' = l2
     /\ storedData' = saveData(l2, storedData, w)
     /\ clock' = clock + d
     /\ last' = [NoCall EXCEPT !.op = "add", !.c = 1, !.preorder = preorder,
                               !.order = rec, !.preData = data,
                               !.preStoredData = storedData]
     /\ UNCHANGED <<stock, stored, catalog>>

getAllPreorders ==
  /\ last' = [NoCall EXCEPT !.op = "listAll", !.c = 1, !.list = data,
                            !.preData = data, !.preStoredData = storedData]
  /\ UNCHANGED <<stock, stored, catalog, orders>>

deletePreorder(id, w) ==
  LET index == FindPreorder(data, id)
      before == [NoCall EXCEPT !.op = "deleteById", !.c = 1, !.oid = id,
                               !.preData = data,
                               !.preStoredData = storedData]
  IN /\ UNCHANGED <<stock, stored, catalog, clock>>
     /\ IF index # 0
        THEN LET l2 == RemoveAt(data, index)
             IN /\ data' = l2
                /\ storedData' = saveData(l2, storedData, w)
                /\ last' = [before EXCEPT !.ok = TRUE]
        ELSE /\ UNCHANGED <<data, storedData>>
             /\ last' = before

clearAll(w) ==
  /\ data' = <<>>
  /\ storedData' = saveData(<<>>, storedData, w)
  /\ last' = [NoCall EXCEPT !.op = "clear", !.c = 1, !.ok = TRUE,
                            !.preData = data, !.preStoredData = storedData]
  /\ UNCHANGED <<stock, stored, catalog, clock>>

(* time passes *)
Tick ==
  /\ clock' = clock + 1
  /\ UNCHANGED <<stock, stored, last, catalog, data, storedData>>

(* the caller has used the result of its call *)
Acknowledge ==
  /\ ~Idle
  /\ last' = NoCall
  /\ UNCHANGED <<stock, stored, catalog, orders>>

----------------------------------------------------------------------------
(* Inputs *)

Items(pids, sizes, qtys) == [id : pids, size : sizes, qty : qtys]

Payloads(items, n) ==
  {[items |-> s] : s \in UNION {[1..k -> items] : k \in 0..n}}

(* the stockMap arguments: any field may be missing; the model drives the  *)
(* sizes S and M and leaves L and XL out of the map                        *)
StockMaps ==
  {m \in [Sizes -> QtyInputs \cup {Undef}] : m["L"] = Undef /\ m["XL"] = Undef}

(* the snapshots an earlier session may have left in localStorage: any set *)
(* of products, S and M stocked up to q                                    *)
Records(q) == {r \in [Sizes -> 0..q] : r["L"] = 0 /\ r["XL"] = 0}

Ledgers(pids, q) == UNION {[dom -> Records(q)] : dom \in SUBSET pids}

(* line items: a quantity below zero, not a number, one unit, the most *)
ItemQtys == {IntVal(MinQty), NaNVal, IntVal(1), IntVal(MaxQty)}

(* the payloads: every line item on the first product, single units (of    *)
(* any size given) on the second                                           *)
AllItems ==
  Items({"sanji"}, SizeInputs, ItemQtys)
    \cup Items({"gyomei"}, SizeInputs, {IntVal(1)})

AllPayloads == Payloads(AllItems, MaxItems)

(* the catalog an earlier session has seeded, held by the instance as it   *)
(* is in localStorage                                                      *)
Seeded ==
  /\ storedProducts = DefaultProducts
  /\ products = loadProducts(storedProducts)

(* no order yet, in memory or in localStorage; the clock at its start *)
NoOrders ==
  /\ storedData = <<>>
  /\ data = loadData(storedData)
  /\ clock = 0

----------------------------------------------------------------------------
(* Spec: one database instance, every write to localStorage succeeding *)

Init ==
  /\ stored \in Ledgers(PIDs, MaxStock)
  /\ stock = [c \in {1} |-> loadStock(stored)]
  /\ last = NoCall
  /\ initial = EmptyLedger
  /\ log = <<>>
  /\ Seeded
  /\ NoOrders

Next ==
  \/ Idle /\ UNCHANGED <<initial, log>>
          /\ \E pid \in PIDs : getProductStock(1, pid)
  \/ Idle /\ UNCHANGED <<initial, log>>
          /\ \E pid \in PIDs, m \in StockMaps : setProductStock(1, pid, m, TRUE)
  \/ Idle /\ UNCHANGED <<initial, log>>
          /\ \E pid \in PIDs, sz \in SizeInputs, d \in QtyInputs :
               updateSizeStock(1, pid, sz, d, TRUE)
  \/ Idle /\ UNCHANGED <<initial, log>>
          /\ \E p \in AllPayloads : canFulfill(1, p)
  \/ Idle /\ UNCHANGED <<initial, log>>
          /\ \E p \in AllPayloads : reserveStock(1, p, TRUE)
  \/ Acknowledge /\ UNCHANGED <<initial, log>>

Spec == Init /\ [][Next]_vars

----------------------------------------------------------------------------
(* SpecLedger: the stock ledger alone (get, set, adjust) *)

NextLedger ==
  \/ Idle /\ UNCHANGED <<initial, log>>
          /\ \E pid \in PIDs : getProductStock(1, pid)
  \/ Idle /\ UNCHANGED <<initial, log>>
          /\ \E pid \in PIDs, m \in StockMaps : setProductStock(1, pid, m, TRUE)
  \/ Idle /\ UNCHANGED <<initial, log>>
          /\ \E pid \in PIDs, sz \in SizeInputs, d \in QtyInputs :
               updateSizeStock(1, pid, sz, d, TRUE)
  \/ Acknowledge /\ UNCHANGED <<initial, log>>

SpecLedger == Init /\ [][NextLedger]_vars

----------------------------------------------------------------------------
(* The reserve calls made since the start, oldest first: who called, with  *)
(* what, and the answer.  `initial` is the snapshot at the start.          *)

Logged(c, payload) ==
  /\ log' = Append(log, [c |-> c, payload |-> payload, ok |-> last'.ok])
  /\ initial' = initial

----------------------------------------------------------------------------
(* SpecSeq: one database instance on which only reserve is called *)

SeqPayloads ==
  Payloads(Items({"sanji"}, {"S", "m"},
                 {IntVal(MinQty), IntVal(1), IntVal(MaxQty)}), MaxItems)

InitSeq ==
  /\ stored \in Ledgers({"sanji"}, MaxStock)
  /\ stock = [c \in {1} |-> loadStock(stored)]
  /\ last = NoCall
  /\ initial = stored
  /\ log = <<>>
  /\ Seeded
  /\ NoOrders

NextSeq ==
  \/ Idle /\ Len(log) < MaxLog
          /\ \E p \in SeqPayloads : reserveStock(1, p, TRUE) /\ Logged(1, p)
  \/ Acknowledge /\ UNCHANGED <<initial, log>>

SpecSeq == InitSeq /\ [][NextSeq]_vars

----------------------------------------------------------------------------
(* SpecRace: two database instances (two tabs) on the same localStorage,   *)
(* each reserving single units.  A tab that is reloaded constructs its     *)
(* instance again.                                                         *)

Clients == {1, 2}

UnitPayloads ==
  {[items |-> <<it>>] : it \in Items({"sanji"}, {"S", "m"}, {IntVal(1)})}

(* new GRIITXDatabase() in tab c, the product catalog being non-empty *)
Construct(c) ==
  /\ stock' = [stock EXCEPT ![c] = loadStock(stored)]
  /\ UNCHANGED <<stored, last, catalog, orders>>

InitRace ==
  /\ stored \in Ledgers({"sanji"}, MaxStock)
  /\ stock = [c \in Clients |-> loadStock(stored)]
  /\ last = NoCall
  /\ initial = stored
  /\ log = <<>>
  /\ Seeded
  /\ NoOrders

NextRace ==
  \/ Idle /\ Len(log) < MaxLog
          /\ \E c \in Clients, p \in UnitPayloads :
               reserveStock(c, p, TRUE) /\ Logged(c, p)
  \/ Idle /\ UNCHANGED <<initial, log>>
          /\ \E c \in Clients : Construct(c)
  \/ Acknowledge /\ UNCHANGED <<initial, log>>

SpecRace == InitRace /\ [][NextRace]_vars

----------------------------------------------------------------------------
(* SpecFail: one database instance whose writes of the stock ledger may    *)
(* fail (localStorage.setItem throws), on one product: get, set, adjust,   *)
(* reserve, and the deletion of the product from the catalog               *)

InitFail ==
  /\ stored \in Ledgers({"sanji"}, MaxStock)
  /\ stock = [c \in {1} |-> loadStock(stored)]
  /\ last = NoCall
  /\ initial = EmptyLedger
  /\ log = <<>>
  /\ Seeded
  /\ NoOrders

NextFail ==
  \/ Idle /\ UNCHANGED <<initial, log>>
          /\ getProductStock(1, "sanji")
  \/ Idle /\ UNCHANGED <<initial, log>>
          /\ \E m \in StockMaps, w \in BOOLEAN :
               setProductStock(1, "sanji", m, w)
  \/ Idle /\ UNCHANGED <<initial, log>>
          /\ \E sz \in SizeInputs, d \in QtyInputs, w \in BOOLEAN :
               updateSizeStock(1, "sanji", sz, d, w)
  \/ Idle /\ UNCHANGED <<initial, log>>
          /\ \E p \in SeqPayloads, w \in BOOLEAN : reserveStock(1, p, w)
  \/ Idle /\ UNCHANGED <<initial, log>>
          /\ \E ws \in BOOLEAN : deleteProduct(Str("sanji"), TRUE, ws)
  \/ Acknowledge /\ UNCHANGED <<initial, log>>

SpecFail == InitFail /\ [][NextFail]_vars

----------------------------------------------------------------------------
(* SpecOrders: the order ledger of one database instance, starting empty,  *)
(* every write succeeding: add, listAll, deleteById, clear, while time     *)
(* passes                                                                  *)

(* the integer part of Math.random() * 1000, as far as the model draws it *)
Randoms == {0, 1}

(* ids a caller may hand over: a number or the string of its digits *)
OrderIds == {IntVal(n) : n \in 0..MaxClock} \cup {DigitsVal(n) : n \in 0..MaxClock}

NoPayload == [items |-> <<>>]

(* the records handed to addPreorder: with or without an id and a          *)
(* createdAt of their own                                                  *)
PreorderInputs(payloads) ==
  [id : {Undef, IntVal(1), DigitsVal(1)},
   createdAt : {Undef, IntVal(MaxClock)},
   payload : payloads]

InitOrders ==
  /\ stored = EmptyLedger
  /\ stock = [c \in {1} |-> loadStock(stored)]
  /\ last = NoCall
  /\ initial = EmptyLedger
  /\ log = <<>>
  /\ Seeded
  /\ NoOrders

NextOrders ==
  \/ Idle /\ UNCHANGED <<initial, log>>
          /\ Len(data) < MaxOrders
          /\ \E po \in PreorderInputs({NoPayload}), ra \in Randoms, d \in 0..1 :
               clock + d <= MaxClock /\ addPreorder(po, ra, d, TRUE)
  \/ Idle /\ UNCHANGED <<initial, log>>
          /\ getAllPreorders
  \/ Idle /\ UNCHANGED <<initial, log>>
          /\ \E id \in OrderIds : deletePreorder(id, TRUE)
  \/ Idle /\ UNCHANGED <<initial, log>>
          /\ clearAll(TRUE)
  \/ Idle /\ UNCHANGED <<initial, log>>
          /\ clock < MaxClock
          /\ Tick
  \/ Acknowledge /\ UNCHANGED <<initial, log>>

SpecOrders == InitOrders /\ [][NextOrders]_vars

----------------------------------------------------------------------------
(* SpecCheckout: one database instance on which stock is reserved and      *)
(* orders are added and deleted, in any order                              *)

NextCheckout ==
  \/ Idle /\ Len(log) < MaxLog
          /\ \E p \in UnitPayloads : reserveStock(1, p, TRUE) /\ Logged(1, p)
  \/ Idle /\ UNCHANGED <<initial, log>>
          /\ Len(data) < MaxOrders
          /\ \E po \in PreorderInputs(UnitPayloads) :
               po.id = Undef /\ po.createdAt = Undef /\ addPreorder(po, 0, 0, TRUE)
  \/ Idle /\ UNCHANGED <<initial, log>>
          /\ \E id \in OrderIds : deletePreorder(id, TRUE)
  \/ Acknowledge /\ UNCHANGED <<initial, log>>

SpecCheckout == InitSeq /\ [][NextCheckout]_vars

----------------------------------------------------------------------------
(* SpecCatalog: one database instance constructed over an empty            *)
(* localStorage (the constructor seeds the default products), on which     *)
(* the catalog and the stock ledger are used together; the page may be     *)
(* reloaded.  The calls are made about one seeded product and one product  *)
(* the caller adds.                                                        *)

CatalogPIDs == {"sanji", "5"}

(* the ids handed to the catalog operations: strings, the number 5, none *)
CatalogIds == {Str("sanji"), Str("5"), Num("5")}

ProductInputs == [id : CatalogIds \cup {NoId}, price : {IntVal(1)}]

(* updates: a new price or none, with an id the caller would like to set *)
UpdateInputs == [id : {Str("sanji")}, price : {IntVal(2), Undef}]

CatalogMaps ==
  {m \in StockMaps : m["M"] = Undef /\ m["S"] \in {IntVal(1), NaNVal}}

CatalogPayloads == Payloads(Items({"5"}, {"S", "XXL"}, {IntVal(1)}), 1)

(* new GRIITXDatabase() on a reload of the page *)
Reload ==
  LET db == Constructed(stored, storedProducts, TRUE, TRUE)
  IN /\ stock' = [stock EXCEPT ![1] = db.stock]
     /\ stored' = db.stored
     /\ products' = db.products
     /\ storedProducts' = db.storedProducts
     /\ data' = loadData(storedData)
     /\ UNCHANGED <<last, storedData, clock>>

InitCatalog ==
  /\ \E wp \in BOOLEAN, ws \in BOOLEAN :
       LET db == Constructed(EmptyLedger, <<>>, wp, ws)
       IN /\ stock = [c \in {1} |-> db.stock]
          /\ stored = db.stored
          /\ products = db.products
          /\ storedProducts = db.storedProducts
  /\ last = NoCall
  /\ initial = EmptyLedger
  /\ log = <<>>
  /\ NoOrders

NextCatalog ==
  \/ Idle /\ UNCHANGED <<initial, log>>
          /\ \E pid \in CatalogPIDs : getProductStock(1, pid)
  \/ Idle /\ UNCHANGED <<initial, log>>
          /\ \E m \in CatalogMaps : setProductStock(1, "5", m, TRUE)
  \/ Idle /\ UNCHANGED <<initial, log>>
          /\ \E sz \in SizeInputs : updateSizeStock(1, "5", sz, IntVal(1), TRUE)
  \/ Idle /\ UNCHANGED <<initial, log>>
          /\ \E p \in CatalogPayloads : canFulfill(1, p)
  \/ Idle /\ UNCHANGED <<initial, log>>
          /\ \E p \in CatalogPayloads : reserveStock(1, p, TRUE)
  \/ Idle /\ UNCHANGED <<initial, log>>
          /\ Len(products) < MaxProducts
          /\ \E product \in ProductInputs : addProduct(product, TRUE, TRUE)
  \/ Idle /\ UNCHANGED <<initial, log>>
          /\ \E id \in CatalogIds, u \in UpdateInputs : updateProduct(id, u, TRUE)
  \/ Idle /\ UNCHANGED <<initial, log>>
          /\ \E id \in CatalogIds : deleteProduct(id, TRUE, TRUE)
  \/ Idle /\ UNCHANGED <<initial, log>>
          /\ Reload
  \/ Acknowledge /\ UNCHANGED <<initial, log>>

SpecCatalog == InitCatalog /\ [][NextCatalog]_vars

----------------------------------------------------------------------------
(* What the claims speak of *)

(* the quantity a ledger holds for (p, s); a product without a record      *)
(* holds nothing                                                           *)
Qty(ledger, p, s) == IF p \in DOMAIN ledger THEN ledger[p][s] ELSE 0

(* the quantity of a line item (what is not a number counts as 0) *)
Quantity(it) == IF it.qty.t = "int" THEN it.qty.v ELSE 0

(* the line item names product p in size s *)
Names(it, p, s) == it.id = p /\ ToUpperCase(it.size) = s

(* the demand of a payload for (p, s): the quantities of its line items    *)
(* naming (p, s), summed                                                   *)
RECURSIVE Demand(_, _, _)
Demand(items, p, s) ==
  IF items = <<>>
  THEN 0
  ELSE (IF Names(Head(items), p, s) THEN Quantity(Head(items)) ELSE 0)
       + Demand(Tail(items), p, s)

(* fulfillability as the specification states it *)
Fulfillable(ledger, payload) ==
  \A p \in PIDs, s \in Sizes :
    Demand(payload.items, p, s) > 0 =>
      Qty(ledger, p, s) >= Demand(payload.items, p, s)

HasValidSize(it) == ToUpperCase(it.size) \in Sizes

HasPositiveQuantity(it) == Quantity(it) > 0

(* the ledger of the instance that made the last call *)
Mem == stock[last.c]

SameQuantities(l1, l2) ==
  \A p \in PIDs, s \in Sizes : Qty(l1, p, s) = Qty(l2, p, s)

----------------------------------------------------------------------------
(* C1: a reserve call on a payload that is not fulfillable answers         *)
(* {ok:false, error:"Insufficient stock"} and changes nothing: the ledger  *)
(* in memory, the set of products with a record included, and the snapshot *)
(* in localStorage are what they were before the call.                     *)
C1_FailedReserveChangesNothing ==
  (last.op = "reserve" /\ ~Fulfillable(last.pre, last.payload)) =>
    /\ last.ok = FALSE
    /\ last.error = "Insufficient stock"
    /\ Mem = last.pre
    /\ stored = last.preStored

(* C4: when reserve answers ok:true, every (product, size) holds what it   *)
(* held before minus the summed quantities of the line items naming it;    *)
(* what the payload does not name is unchanged.                            *)
C4_ReserveDecrementsExactlyDemand ==
  (last.op = "reserve" /\ last.ok) =>
    \A p \in PIDs, s \in Sizes :
      Qty(Mem, p, s) = Qty(last.pre, p, s) - Demand(last.payload.items, p, s)

(* C5: every quantity of every stock record, in memory and in the          *)
(* snapshot, is an integer >= 0 after any sequence of set, adjust and      *)
(* reserve calls.                                                          *)
C5_NonNegative ==
  /\ \A c \in DOMAIN stock : \A p \in DOMAIN stock[c] : \A s \in Sizes :
       stock[c][p][s] \in Nat
  /\ \A p \in DOMAIN stored : \A s \in Sizes : stored[p][s] \in Nat

(* C5 witness: an adjust whose delta would take the quantity below zero    *)
(* has returned, and the quantity is 0.                                    *)
C5_Witness_AdjustClamped ==
  /\ last.op = "adjust"
  /\ last.ok
  /\ Qty(last.pre, last.pid, ToUpperCase(last.size)) + Quantity([qty |-> last.val]) < 0
  /\ Qty(Mem, last.pid, ToUpperCase(last.size)) = 0

(* C6: line items whose quantity is zero or negative count as no demand:   *)
(* canFulfill and reserve answer, and reserve leaves the quantities, as    *)
(* they would for the payload without those items; and no reserve call     *)
(* increases a quantity.                                                   *)
C6_NonPositiveQuantityIsNoDemand ==
  LET kept == [items |-> SelectSeq(last.payload.items, HasPositiveQuantity)]
  IN /\ last.op = "canFulfill" =>
          last.ok = CanFulfillResult(last.pre, kept).ok
     /\ last.op = "reserve" =>
          /\ last.ok = ReserveResult(last.pre, kept).ok
          /\ SameQuantities(Mem, ReserveResult(last.pre, kept).stock)
          /\ \A p \in PIDs, s \in Sizes : Qty(Mem, p, s) <= Qty(last.pre, p, s)

(* C7: canFulfill answers true exactly when every (product, size) with a   *)
(* positive summed demand is stocked to at least that demand; line items   *)
(* of an unrecognized size add no demand; the empty payload is             *)
(* fulfillable.                                                            *)
C7_CanFulfillIffCovered ==
  last.op = "canFulfill" =>
    /\ last.ok <=> Fulfillable(last.pre, last.payload)
    /\ last.ok = CanFulfillResult(last.pre,
                    [items |-> SelectSeq(last.payload.items, HasValidSize)]).ok
    /\ last.payload.items = <<>> => last.ok

(* C7 witness: canFulfill has refused a payload of two line items naming   *)
(* the same product and size, each of which alone is in stock.             *)
C7_Witness_AggregatedRefusal ==
  /\ last.op = "canFulfill"
  /\ ~last.ok
  /\ Len(last.payload.items) = 2
  /\ \E p \in PIDs, s \in Sizes :
       \A i \in 1..2 :
         /\ Names(last.payload.items[i], p, s)
         /\ Quantity(last.payload.items[i]) > 0
         /\ Quantity(last.payload.items[i]) <= Qty(last.pre, p, s)

(* C8: canFulfill leaves the stock ledger as it found it: the same         *)
(* products have a record, with the same quantities.                       *)
C8_CanFulfillReadOnly ==
  last.op = "canFulfill" => Mem = last.pre

(* C9: set replaces each size present in the map by max(0, value), keeps   *)
(* the stored quantity of each size missing from it, leaves the records of *)
(* the other products alone and returns the record it stored.              *)
C9_SetKeepsMissingSizes ==
  last.op = "set" =>
    /\ last.pid \in DOMAIN Mem
    /\ \A s \in Sizes :
         /\ last.stockMap[s].t = "undef" =>
              Mem[last.pid][s] = Qty(last.pre, last.pid, s)
         /\ last.stockMap[s].t = "int" =>
              Mem[last.pid][s] = Max(0, last.stockMap[s].v)
    /\ \A p \in PIDs \ {last.pid} :
         /\ p \in DOMAIN Mem <=> p \in DOMAIN last.pre
         /\ p \in DOMAIN Mem => Mem[p] = last.pre[p]
    /\ last.rec = Mem[last.pid]
    /\ last.pid \in DOMAIN stored /\ last.rec = stored[last.pid]

(* C9 witness: a set naming S alone has returned on a record whose M was   *)
(* in stock, with S replaced and M kept.                                   *)
C9_Witness_PartialSet ==
  /\ last.op = "set"
  /\ last.stockMap["S"].t = "int"
  /\ last.stockMap["M"].t = "undef"
  /\ Qty(last.pre, last.pid, "M") = 1
  /\ Qty(last.pre, last.pid, "S") # Mem[last.pid]["S"]
  /\ Mem[last.pid]["M"] = 1

(* C10: adjust with a size that is not S, M, L or XL returns false and     *)
(* changes nothing, in memory (the set of products with a record included) *)
(* or in localStorage; with a valid size it returns true, sets that size   *)
(* to max(0, stored + delta) and changes no other size or product.         *)
C10_AdjustInvalidSizeNoOp ==
  last.op = "adjust" =>
    LET key == ToUpperCase(last.size)
    IN IF key \notin Sizes
       THEN /\ last.ok = FALSE
            /\ Mem = last.pre
            /\ stored = last.preStored
       ELSE /\ last.ok = TRUE
            /\ \A p \in PIDs, s \in Sizes :
                 Qty(Mem, p, s) =
                   IF p = last.pid /\ s = key
                   THEN Max(0, Qty(last.pre, p, s) + Quantity([qty |-> last.val]))
                   ELSE Qty(last.pre, p, s)

----------------------------------------------------------------------------
(* Quantities granted by the reservations of a log that answered ok:true   *)

(* what a payload takes of (p, s), counting a line item for what it asks   *)
(* when that is positive and for nothing otherwise                         *)
RECURSIVE Taken(_, _, _)
Taken(items, p, s) ==
  IF items = <<>>
  THEN 0
  ELSE (IF Names(Head(items), p, s) THEN Max(0, Quantity(Head(items))) ELSE 0)
       + Taken(Tail(items), p, s)

RECURSIVE GrantedTaken(_, _, _)
GrantedTaken(lg, p, s) ==
  IF lg = <<>>
  THEN 0
  ELSE (IF Head(lg).ok THEN Taken(Head(lg).payload.items, p, s) ELSE 0)
       + GrantedTaken(Tail(lg), p, s)

RECURSIVE GrantedDemand(_, _, _)
GrantedDemand(lg, p, s) ==
  IF lg = <<>>
  THEN 0
  ELSE (IF Head(lg).ok THEN Demand(Head(lg).payload.items, p, s) ELSE 0)
       + GrantedDemand(Tail(lg), p, s)

(* C2: after any sequence of reserve calls on one instance, for every      *)
(* (product, size) the quantities granted by the calls that answered       *)
(* ok:true sum to at most the starting stock, and the current stock is the *)
(* starting stock minus that sum.  The sum is read both ways: line items   *)
(* counted for their positive quantities only, or quantities summed as     *)
(* they are; the claim is taken to hold if it holds under either reading.  *)
C2_NoOversell ==
  \/ \A p \in PIDs, s \in Sizes :
       /\ GrantedTaken(log, p, s) <= Qty(initial, p, s)
       /\ Qty(stock[1], p, s) = Qty(initial, p, s) - GrantedTaken(log, p, s)
  \/ \A p \in PIDs, s \in Sizes :
       /\ GrantedDemand(log, p, s) <= Qty(initial, p, s)
       /\ Qty(stock[1], p, s) = Qty(initial, p, s) - GrantedDemand(log, p, s)

(* C3: when two database instances on the same localStorage each call      *)
(* reserve for the last unit of the same (product, size), exactly one of   *)
(* the two calls answers ok:true.                                          *)
C3_LastUnitGrantedOnce ==
  \A p \in PIDs, s \in Sizes :
    ( /\ Len(log) = 2
      /\ log[1].c # log[2].c
      /\ Qty(initial, p, s) = 1
      /\ \A i \in 1..2 : Taken(log[i].payload.items, p, s) = 1 )
    => (log[1].ok # log[2].ok)

----------------------------------------------------------------------------
(* Persistence of the stock ledger *)

(* the last call is one that changes the stock ledger and saves it: set,   *)
(* adjust with a valid size, a reserve that answered ok:true, or the       *)
(* deletion of a product that had a stock record                           *)
StockMutatingCall ==
  \/ last.op = "set"
  \/ last.op = "adjust" /\ ToUpperCase(last.size) \in Sizes
  \/ last.op = "reserve" /\ last.ok
  \/ last.op = "deleteProduct" /\ last.ok /\ last.pid \in DOMAIN last.pre

(* C11: when a stock-mutating call (set, adjust with a valid size, a       *)
(* reserve answering ok:true, a product deletion that removes a stock      *)
(* record) has returned and its write did not fail, the snapshot in        *)
(* localStorage is the whole ledger the instance holds in memory.          *)
C11_WriteThrough ==
  (StockMutatingCall /\ last.write # "failed") =>
    /\ last.write = "ok"
    /\ stored = Mem

(* C11 witness: the deletion of a product has removed its stock record and *)
(* written the ledger, at a time when localStorage was behind memory (an   *)
(* earlier write had failed): the snapshot has caught up.                  *)
C11_Witness_DeletionCatchesUp ==
  /\ last.op = "deleteProduct"
  /\ last.ok
  /\ last.pid \in DOMAIN last.pre
  /\ last.pid \notin DOMAIN Mem
  /\ last.write = "ok"
  /\ last.preStored # last.pre
  /\ stored = Mem

(* C12: when the write of the stock ledger fails during set, adjust or     *)
(* reserve, the call does not report success: it throws, or (adjust)       *)
(* returns false, or (reserve) returns ok:false with an error that is not  *)
(* "Insufficient stock".                                                   *)
C12_WriteFailureSurfaced ==
  (last.op \in {"set", "adjust", "reserve"} /\ last.write = "failed") =>
    \/ last.threw
    \/ last.op = "adjust" /\ ~last.ok
    \/ last.op = "reserve" /\ ~last.ok
         /\ last.error \notin {"", "Insufficient stock"}

(* C13: when the write of the stock ledger fails during set, adjust or     *)
(* reserve, the quantities in memory after the call are those before it,   *)
(* and so memory is not ahead of localStorage because of this call.        *)
C13_FailedWriteRollsBack ==
  (last.op \in {"set", "adjust", "reserve"} /\ last.write = "failed") =>
    SameQuantities(Mem, last.pre)

----------------------------------------------------------------------------
(* C14: get on a product without a stock record returns                    *)
(* {S:0, M:0, L:0, XL:0}; a second get on the same product, with no        *)
(* mutating call in between, returns the same record; and get leaves the   *)
(* quantities of every record that existed as they were.                   *)
C14_StableRead ==
  last.op = "get" =>
    /\ last.pid \notin DOMAIN last.pre =>
         last.rec = [S |-> 0, M |-> 0, L |-> 0, XL |-> 0]
    /\ last.rec = GetResult(last.pre, last.pid)
    /\ GetResult(Mem, last.pid) = last.rec
    /\ \A p \in DOMAIN last.pre : p \in DOMAIN Mem /\ Mem[p] = last.pre[p]

(* C14 witness: get has returned for a product that had no record, on a    *)
(* ledger in which another product is in stock.                            *)
C14_Witness_GetUnknown ==
  /\ last.op = "get"
  /\ last.pid \notin DOMAIN last.pre
  /\ \E p \in DOMAIN last.pre : last.pre[p]["S"] > 0
  /\ last.pid \in DOMAIN Mem

----------------------------------------------------------------------------
(* Order ledger *)

(* C15: listAll returns the records that remain, the most recent           *)
(* createdAt first (never an older record before a newer one), and the     *)
(* empty sequence when there are none; add puts the new record in front    *)
(* of the others.                                                          *)
C15_ListedNewestFirst ==
  /\ last.op = "listAll" =>
       /\ last.list = data
       /\ \A i, j \in 1..Len(last.list) :
            i < j => last.list[i].createdAt >= last.list[j].createdAt
       /\ data = <<>> => last.list = <<>>
  /\ last.op = "add" =>
       /\ Len(data) = Len(last.preData) + 1
       /\ data[1] = last.order
       /\ \A i \in 1..Len(last.preData) : data[i + 1] = last.preData[i]

(* C15 witness: listAll has returned three records added at three          *)
(* different times, the latest first.                                      *)
C15_Witness_ThreeListed ==
  /\ last.op = "listAll"
  /\ Len(last.list) = 3
  /\ last.list[1].createdAt > last.list[2].createdAt
  /\ last.list[2].createdAt > last.list[3].createdAt

(* C16: the records of the order ledger have pairwise distinct ids,        *)
(* whether several are added within the same millisecond or the record     *)
(* handed to add carries an id of its own.                                 *)
C16_OrderIdsUnique ==
  \A i, j \in 1..Len(data) : i # j => data[i].id # data[j].id

(* the positions of the records whose id is the one given (a number and    *)
(* the string of its digits being the same id)                             *)
Matching(ledger, id) ==
  {i \in 1..Len(ledger) : ledger[i].id.v = id.v}

(* C17: deleteById returns true exactly when a record with that id         *)
(* existed; then one record with that id is gone and the others are where  *)
(* they were, in the same order; otherwise it returns false and the order  *)
(* ledger is unchanged, in memory and in localStorage.                     *)
C17_DeleteByIdExact ==
  last.op = "deleteById" =>
    /\ last.ok <=> Matching(last.preData, last.oid) # {}
    /\ last.ok =>
         \E i \in Matching(last.preData, last.oid) :
           /\ Len(data) = Len(last.preData) - 1
           /\ \A k \in 1..(i - 1) : data[k] = last.preData[k]
           /\ \A k \in i..Len(data) : data[k] = last.preData[k + 1]
    /\ ~last.ok => (data = last.preData /\ storedData = last.preStoredData)

(* C17 witness: deleteById has removed the second of three records.        *)
C17_Witness_MiddleDeleted ==
  /\ last.op = "deleteById"
  /\ last.ok
  /\ Len(last.preData) = 3
  /\ data = <<last.preData[1], last.preData[3]>>
  /\ last.preData[2] \notin {last.preData[1], last.preData[3]}

(* a reserve call on this payload has answered ok:true *)
Granted(payload) ==
  \E i \in 1..Len(log) : log[i].ok /\ log[i].payload = payload

(* C18: every record that enters the order ledger carries a payload on     *)
(* which a reserve call has answered ok:true before; and a record, once    *)
(* in the ledger, is never changed: each step keeps the ledger, puts one   *)
(* record in front of it, removes one record, or removes all.              *)
C18_OrdersFollowReservations ==
  [][ /\ \A i \in 1..Len(data') :
           \/ \E j \in 1..Len(data) : data[j] = data'[i]
           \/ Granted(data'[i].payload)
      /\ \/ data' = data
         \/ data' # <<>> /\ Tail(data') = data
         \/ \E i \in 1..Len(data) : data' = RemoveAt(data, i)
         \/ data' = <<>> ]_vars

----------------------------------------------------------------------------
(* Catalog and stock records *)

(* C19: every stock record, in memory and in localStorage, has exactly     *)
(* the keys S, M, L and XL, and so has every record get and set return.    *)
C19_StockRecordShape ==
  /\ \A c \in DOMAIN stock : \A p \in DOMAIN stock[c] :
       DOMAIN stock[c][p] = {"S", "M", "L", "XL"}
  /\ \A p \in DOMAIN stored : DOMAIN stored[p] = {"S", "M", "L", "XL"}
  /\ last.op \in {"get", "set"} => DOMAIN last.rec = {"S", "M", "L", "XL"}

(* C19 witness: adjust has been called with a size that is not one of the  *)
(* four, on a product the caller added to the catalog and stocked.         *)
C19_Witness_AdjustUnknownSize ==
  /\ last.op = "adjust"
  /\ ToUpperCase(last.size) = "XXL"
  /\ \E i \in 1..Len(products) : products[i].id = last.pid
  /\ last.pid \notin {DefaultProducts[i].id : i \in 1..Len(DefaultProducts)}
  /\ Mem[last.pid]["S"] > 0

(* C20: no two products of the catalog have the same id; and addProduct    *)
(* with an id whose text is already the id of a product fails, leaving     *)
(* the catalog and the stock ledger as they were.                          *)
C20_CatalogIdsUnique ==
  /\ \A i, j \in 1..Len(products) : i # j => products[i].id # products[j].id
  /\ ( /\ last.op = "addProduct"
       /\ \E i \in 1..Len(last.preProducts) :
            last.preProducts[i].id = String(last.product.id) )
     => /\ last.threw
        /\ products = last.preProducts
        /\ storedProducts = last.preStoredProducts
        /\ Mem = last.pre
        /\ stored = last.preStored

====
